---- MODULE Spec2Model ----
(***************************************************************************)
(* The prefetching frame cache of zarrtraj (src/zarrtraj/CACHE.py):        *)
(* FrameCache.update_frame_seq, AsyncFrameCache.getFrame, .run, .cleanup   *)
(* and ._predict, as a state machine of one worker thread and the consumer *)
(* threads that call getFrame.                                             *)
(*                                                                         *)
(* Reading of the source.  CACHE.py calls helpers it never defines         *)
(* (_cache_contains, _get_key, _evict, _load_timestep) and reads           *)
(* attributes it never sets (_num_cache_frames, _max_cache_frames); those  *)
(* are modelled from the design text (spec.md, sections 3 and 4).          *)
(* The loop test of run(), `not self._stop_event`, is read as the test of  *)
(* the event's flag.  A step of the model is a statement (or a run of      *)
(* statements that touch no shared state in between) of one thread; the    *)
(* threads interleave between steps.                                       *)
(***************************************************************************)
EXTENDS Integers, Sequences, FiniteSets, TLC

\* ------------------------------------------------------------- bounds
MaxLen == 2        \* longest access sequence handed to update_frame_seq
MaxFrame == 2      \* frame indices are 0..MaxFrame
MaxCap == 2        \* max_cache_frames is 0..MaxCap
MaxCalls == 1      \* getFrame calls issued by one consumer
MaxSoloLen == 4    \* longest access sequence of the single-consumer runs
MaxStopLen == 3    \* longest access sequence of the runs with cleanup()
MaxPredLen == 3    \* longest remaining sequence handed to _predict alone
MaxPredCache == 2  \* most cache slots handed to _predict alone

Consumers == {"c1", "c2"}
Frames == 0..MaxFrame
ChunkSizes == {2, 3}

VARIABLES
  frames_per_chunk,   \* self._frames_per_chunk
  max_cache_frames,   \* self._max_cache_frames
  configured,         \* update_frame_seq has been called
  access_seq,         \* the sequence update_frame_seq was given (history)
  frame_seq,          \* self._frame_seq : the worker's remaining entries
  reader_q,           \* self._reader_q  : the consumer's remaining entries
  cache,              \* the resident chunk keys, in slot order
  first_read,         \* self._first_read
  stop_event,         \* self._stop_event
  mutex,              \* holder of self._mutex: "free", "worker" or a consumer
  waiters,            \* threads blocked in self._frame_available.wait(), FIFO
  wpc,                \* the worker's position in run()
  wkey,               \* run()'s local `key`
  evict_slot,         \* run()'s local `eviction_key`
  cpc,                \* each consumer's position in getFrame
  cframe,             \* each consumer's argument `frame`
  cres,               \* how each consumer's last call ended
  cinfo,              \* what held when each consumer's call was issued (history)
  ncalls,             \* getFrame calls issued by each consumer
  start_calls,        \* calls of self.start() (history)
  loads,              \* keys inserted by the worker, in order (history)
  victims,            \* keys evicted by the worker, in order (history)
  load_failed,        \* a ChunkStore load has failed (history)
  at_cleanup          \* the consumers in wait() when cleanup() first ran (history)

vars == <<frames_per_chunk, max_cache_frames, configured, access_seq, frame_seq,
          reader_q, cache, first_read, stop_event, mutex, waiters, wpc, wkey,
          evict_slot, cpc, cframe, cres, cinfo, ncalls, start_calls, loads, victims,
          load_failed, at_cleanup>>

\* ------------------------------------------------------------ helpers
SeqsUpTo(S, n) == UNION {[1..k -> S] : k \in 0..n}

\* list.pop(0): what is left
PopFront(s) == SubSeq(s, 2, Len(s))

\* del cache[slot], slot counted from 0
RemoveSlot(s, slot) == SubSeq(s, 1, slot) \o SubSeq(s, slot + 2, Len(s))

\* key = frame % self._frames_per_chunk
ChunkKey(frame, fpc) == frame % fpc

KeysOf(s, fpc) == [k \in 1..Len(s) |-> ChunkKey(s[k], fpc)]

\* self._cache_contains(frame): the chunk of `frame` is resident
CacheContains(c, frame, fpc) == \E k \in 1..Len(c) : c[k] = ChunkKey(frame, fpc)

\* self._num_cache_frames
NumCacheFrames(c) == Len(c)

\* (the test of line 70 with <= for <)
HasSpareLeq(n, cap) == n <= cap

\* elif self._num_cache_frames < self._max_cache_frames
HasSpare(n, cap) == n < cap

\* (the loop test of line 64 without the stop signal)
LoopContinuesNoStop(fs, stop) == fs # <<>>

\* while self._frame_seq and not self._stop_event
LoopContinues(fs, stop) == fs # <<>> /\ ~stop

\* (the test of line 68 never taken)
AlreadyCachedNever(c, key, fpc) == FALSE

\* if self._cache_contains(key): continue
AlreadyCached(c, key, fpc) == CacheContains(c, key, fpc)

\* while not self._cache_contains(frame): wait
NeedWait(c, frame, fpc) == ~CacheContains(c, frame, fpc)

\* ----------------------------------------------------------- _predict
\* (the comparison of line 105 with >= for >)
FartherOrEqual(j, farthest) == j >= farthest

\* if j > farthest
Farther(j, farthest) == j > farthest

\* for j in range(index, frame_seq_len): if page == frame_seq[j]: ... break
\* the j at which the loop breaks, -1 when it runs to the end (indices from 0)
RECURSIVE FirstRef(_, _, _, _)
FirstRef(fs, page, j, n) ==
  IF j >= n THEN -1
  ELSE IF fs[j + 1] = page THEN j
  ELSE FirstRef(fs, page, j + 1, n)

\* the value of the loop variable j after the inner loop: the break position,
\* else the last value range(index, n) gave it, else the `j = 0` before the loop
LoopVarAfter(fs, page, index, n) ==
  LET p == FirstRef(fs, page, index, n)
  IN IF p # -1 THEN p ELSE IF index >= n THEN 0 ELSE n - 1

RECURSIVE PredictFrom(_, _, _, _, _, _, _)
PredictFrom(fs, c, n, index, i, res, farthest) ==
  IF i >= Len(c) THEN (IF res = -1 THEN 0 ELSE res)
  ELSE LET p == FirstRef(fs, c[i + 1], index, n)
           j == LoopVarAfter(fs, c[i + 1], index, n)
           upd == p # -1 /\ Farther(p, farthest)
       IN IF j = n THEN i
          ELSE PredictFrom(fs, c, n, index, i + 1,
                           IF upd THEN i ELSE res,
                           IF upd THEN p ELSE farthest)

\* _predict(frame_seq, cache, frame_seq_len, index): the slot to evict
Predict(fs, c, n, index) == PredictFrom(fs, c, n, index, 0, -1, index)

\* eviction_key = self._predict(): the remaining entries as chunk keys, from 0
PredictCall(fs, c, fpc) == Predict(KeysOf(fs, fpc), c, Len(fs), 0)

\* ---------------------------------------------------------------- Init
Init ==
  /\ frames_per_chunk \in ChunkSizes
  /\ max_cache_frames \in 0..MaxCap
  /\ configured = FALSE
  /\ access_seq = <<>>
  /\ frame_seq = <<>>
  /\ reader_q = <<>>
  /\ cache = <<>>
  /\ first_read = TRUE
  /\ stop_event = FALSE
  /\ mutex = "free"
  /\ waiters = <<>>
  /\ wpc = "idle"
  /\ wkey = 0
  /\ evict_slot = 0
  /\ cpc = [c \in Consumers |-> "idle"]
  /\ cframe = [c \in Consumers |-> 0]
  /\ cres = [c \in Consumers |-> "none"]
  /\ cinfo = [c \in Consumers |-> [cfg |-> FALSE, stopped |-> FALSE,
                                   inq |-> FALSE, head |-> FALSE]]
  /\ ncalls = [c \in Consumers |-> 0]
  /\ start_calls = 0
  /\ loads = <<>>
  /\ victims = <<>>
  /\ load_failed = FALSE
  /\ at_cleanup = {}

\* ------------------------------------------------- FrameCache contract
\* update_frame_seq(frame_seq); the reader calls it once
UpdateFrameSeq(s) ==
  /\ ~configured
  /\ configured' = TRUE
  /\ access_seq' = s
  /\ frame_seq' = s
  /\ reader_q' = s
  /\ UNCHANGED <<frames_per_chunk, max_cache_frames, cache, first_read,
                 stop_event, mutex, waiters, wpc, wkey, cpc, cframe, cres,
                 cinfo, ncalls, start_calls, loads, victims, load_failed,
                 at_cleanup, evict_slot>>

\* (an event that is flipped instead of set)
ToggleEvent(e) == ~e

\* self._stop_event.set()
SetEvent(e) == TRUE

\* cleanup(): self._stop() sets the event
Cleanup ==
  /\ stop_event' = SetEvent(stop_event)
  /\ at_cleanup' = IF stop_event THEN at_cleanup
                   ELSE {waiters[k] : k \in 1..Len(waiters)}
  /\ UNCHANGED <<frames_per_chunk, max_cache_frames, configured, access_seq,
                 frame_seq, reader_q, cache, first_read, mutex, waiters, wpc,
                 wkey, cpc, cframe, cres, cinfo, ncalls, start_calls, loads,
                 victims, load_failed, evict_slot>>

\* ------------------------------------------------ AsyncFrameCache.run
\* One pass over the loop head and the branch, which read and write only
\* what the worker alone writes (and the stop flag):
\*   while self._frame_seq and not self._stop_event:
\*       frame = self._frame_seq.pop(0); key = frame % self._frames_per_chunk
\*       if self._cache_contains(key): continue
\*       elif self._num_cache_frames < self._max_cache_frames: ...
\*       else: ...
RunIterate ==
  /\ wpc = "loop"
  /\ IF LoopContinues(frame_seq, stop_event)
     THEN LET key == ChunkKey(Head(frame_seq), frames_per_chunk)
          IN /\ frame_seq' = PopFront(frame_seq)
             /\ wkey' = key
             /\ wpc' = IF AlreadyCached(cache, key, frames_per_chunk) THEN "loop"
                       ELSE IF HasSpare(NumCacheFrames(cache), max_cache_frames)
                            THEN "load"
                       ELSE "lock"
     ELSE /\ wpc' = "stopped"
          /\ UNCHANGED <<frame_seq, wkey>>
  /\ UNCHANGED <<frames_per_chunk, max_cache_frames, configured, access_seq,
                 reader_q, cache, first_read, stop_event, mutex, waiters, cpc,
                 cframe, cres, cinfo, ncalls, start_calls, loads, victims,
                 load_failed,
                 at_cleanup, evict_slot>>

\* self._get_key(key) with spare capacity: no lock is taken, nothing is notified.
\* The ChunkStore load may fail; run() catches nothing, so the thread ends.
RunGetKey ==
  /\ wpc = "load"
  /\ \/ /\ cache' = Append(cache, wkey)
        /\ loads' = Append(loads, wkey)
        /\ wpc' = "loop"
        /\ UNCHANGED load_failed
     \/ /\ load_failed' = TRUE
        /\ wpc' = "crashed"
        /\ UNCHANGED <<cache, loads>>
  /\ UNCHANGED <<frames_per_chunk, max_cache_frames, configured, access_seq,
                 frame_seq, reader_q, first_read, stop_event, mutex, waiters,
                 wkey, cpc, cframe, cres, cinfo, ncalls, start_calls, victims,
                 at_cleanup, evict_slot>>

\* (the eviction entered without taking the lock)
RunMayLockAlways(m) == TRUE

\* the worker may enter `with self._mutex:`
RunMayLock(m) == m = "free"

\* with self._mutex: eviction_key = self._predict()
RunPredict ==
  /\ wpc = "lock"
  /\ RunMayLock(mutex)
  /\ mutex' = "worker"
  /\ evict_slot' = PredictCall(frame_seq, cache, frames_per_chunk)
  /\ wpc' = "evict"
  /\ UNCHANGED <<frames_per_chunk, max_cache_frames, configured, access_seq,
                 frame_seq, reader_q, cache, first_read, stop_event, waiters,
                 wkey, cpc, cframe, cres, cinfo, ncalls, start_calls, loads,
                 victims, load_failed, at_cleanup>>

\* self._evict(eviction_key)
\* A slot that is not in the cache raises out of run(); the with block
\* releases the lock.
RunEvict ==
  /\ wpc = "evict"
  /\ IF 0 <= evict_slot /\ evict_slot < Len(cache)
     THEN /\ cache' = RemoveSlot(cache, evict_slot)
          /\ victims' = Append(victims, cache[evict_slot + 1])
          /\ wpc' = "insert"
          /\ UNCHANGED mutex
     ELSE /\ wpc' = "crashed"
          /\ mutex' = "free"
          /\ UNCHANGED <<cache, victims>>
  /\ UNCHANGED <<frames_per_chunk, max_cache_frames, configured, access_seq,
                 frame_seq, reader_q, first_read, stop_event, waiters, wkey,
                 cpc, cframe, cres, cinfo, ncalls, start_calls, loads,
                 load_failed, at_cleanup, evict_slot>>

\* self._get_key(key); self._frame_available.notify(); the with block ends.
\* notify() wakes the longest waiting thread, if any.
RunInsert ==
  /\ wpc = "insert"
  /\ \/ /\ cache' = Append(cache, wkey)
        /\ loads' = Append(loads, wkey)
        /\ wpc' = "loop"
        /\ IF waiters # <<>>
           THEN /\ cpc' = [cpc EXCEPT ![Head(waiters)] = "notified"]
                /\ waiters' = Tail(waiters)
           ELSE UNCHANGED <<cpc, waiters>>
        /\ UNCHANGED load_failed
     \/ /\ load_failed' = TRUE
        /\ wpc' = "crashed"
        /\ UNCHANGED <<cache, loads, cpc, waiters>>
  /\ mutex' = "free"
  /\ UNCHANGED <<frames_per_chunk, max_cache_frames, configured, access_seq,
                 frame_seq, reader_q, first_read, stop_event, wkey, cframe,
                 cres, cinfo, ncalls, start_calls, victims,
                 at_cleanup, evict_slot>>

\* ------------------------------------------- AsyncFrameCache.getFrame
\* a consumer calls getFrame(f) and evaluates `if self._first_read`
\* (n bounds the calls one consumer issues)
GetFrameCallUpTo(c, f, n) ==
  /\ cpc[c] = "idle"
  /\ ncalls[c] < n
  /\ ncalls' = [ncalls EXCEPT ![c] = @ + 1]
  /\ cframe' = [cframe EXCEPT ![c] = f]
  /\ cres' = [cres EXCEPT ![c] = "none"]
  /\ cinfo' = [cinfo EXCEPT ![c] =
                 [cfg |-> configured, stopped |-> stop_event,
                  inq |-> \E k \in 1..Len(reader_q) : reader_q[k] = f,
                  head |-> reader_q # <<>> /\ Head(reader_q) = f]]
  /\ cpc' = [cpc EXCEPT ![c] = IF first_read THEN "start" ELSE "acquire"]
  /\ UNCHANGED <<frames_per_chunk, max_cache_frames, configured, access_seq,
                 frame_seq, reader_q, cache, first_read, stop_event, mutex,
                 waiters, wpc, wkey, start_calls, loads, victims, load_failed,
                 at_cleanup, evict_slot>>

GetFrameCall(c, f) == GetFrameCallUpTo(c, f, MaxCalls)

\* self._first_read = False; self.start()
\* Thread.start() on a thread that was started raises RuntimeError
GetFrameStart(c) ==
  /\ cpc[c] = "start"
  /\ first_read' = FALSE
  /\ start_calls' = start_calls + 1
  /\ IF wpc = "idle"
     THEN /\ wpc' = "loop"
          /\ cpc' = [cpc EXCEPT ![c] = "acquire"]
          /\ UNCHANGED cres
     ELSE /\ cpc' = [cpc EXCEPT ![c] = "idle"]
          /\ cres' = [cres EXCEPT ![c] = "RuntimeError"]
          /\ UNCHANGED wpc
  /\ UNCHANGED <<frames_per_chunk, max_cache_frames, configured, access_seq,
                 frame_seq, reader_q, cache, stop_event, mutex, waiters, wkey,
                 cframe, cinfo, ncalls, loads, victims, load_failed,
                 at_cleanup, evict_slot>>

\* with self._frame_available: (or the lock taken again when wait() returns)
\*     while not self._cache_contains(frame): self._frame_available.wait()
\* wait() releases the lock and blocks until notified
GetFrameWait(c) ==
  /\ cpc[c] \in {"acquire", "notified"}
  /\ mutex = "free"
  /\ IF NeedWait(cache, cframe[c], frames_per_chunk)
     THEN /\ waiters' = Append(waiters, c)
          /\ cpc' = [cpc EXCEPT ![c] = "waiting"]
          /\ UNCHANGED mutex
     ELSE /\ cpc' = [cpc EXCEPT ![c] = "read"]
          /\ mutex' = c
          /\ UNCHANGED waiters
  /\ UNCHANGED <<frames_per_chunk, max_cache_frames, configured, access_seq,
                 frame_seq, reader_q, cache, first_read, stop_event, wpc, wkey,
                 cframe, cres, cinfo, ncalls, start_calls, loads, victims,
                 load_failed,
                 at_cleanup, evict_slot>>

\* self._load_timestep(frame); self._reader_q.pop(0); the with block ends
\* pop(0) of an empty list raises IndexError
GetFrameRead(c) ==
  /\ cpc[c] = "read"
  /\ IF reader_q = <<>>
     THEN /\ cres' = [cres EXCEPT ![c] = "IndexError"]
          /\ UNCHANGED reader_q
     ELSE /\ cres' = [cres EXCEPT ![c] = "ok"]
          /\ reader_q' = PopFront(reader_q)
  /\ mutex' = "free"
  /\ cpc' = [cpc EXCEPT ![c] = "idle"]
  /\ UNCHANGED <<frames_per_chunk, max_cache_frames, configured, access_seq,
                 frame_seq, cache, first_read, stop_event, waiters, wpc, wkey,
                 cframe, cinfo, ncalls, start_calls, loads, victims,
                 load_failed, at_cleanup, evict_slot>>

\* ------------------------------------------------------ specification
Next ==
  \/ \E s \in SeqsUpTo(Frames, MaxLen) : UpdateFrameSeq(s)
  \/ Cleanup
  \/ RunIterate
  \/ RunGetKey
  \/ RunPredict
  \/ RunEvict
  \/ RunInsert
  \/ \E c \in Consumers, f \in Frames : GetFrameCall(c, f)
  \/ \E c \in Consumers : GetFrameStart(c)
  \/ \E c \in Consumers : GetFrameWait(c)
  \/ \E c \in Consumers : GetFrameRead(c)

Spec == Init /\ [][Next]_vars

\* --------------------------------------- the single-consumer runs
\* The state after update_frame_seq(s) for a sequence s of the set S.
InstalledWith(S) ==
  /\ frames_per_chunk \in ChunkSizes
  /\ max_cache_frames \in 0..MaxCap
  /\ configured = TRUE
  /\ \E s \in S :
       /\ access_seq = s
       /\ frame_seq = s
       /\ reader_q = s
  /\ cache = <<>>
  /\ first_read = TRUE
  /\ stop_event = FALSE
  /\ mutex = "free"
  /\ waiters = <<>>
  /\ wpc = "idle"
  /\ wkey = 0
  /\ evict_slot = 0
  /\ cpc = [c \in Consumers |-> "idle"]
  /\ cframe = [c \in Consumers |-> 0]
  /\ cres = [c \in Consumers |-> "none"]
  /\ cinfo = [c \in Consumers |-> [cfg |-> FALSE, stopped |-> FALSE,
                                   inq |-> FALSE, head |-> FALSE]]
  /\ ncalls = [c \in Consumers |-> 0]
  /\ start_calls = 0
  /\ loads = <<>>
  /\ victims = <<>>
  /\ load_failed = FALSE
  /\ at_cleanup = {}

\* The state after update_frame_seq(s) for a sequence of at most n frames.
InstalledInit(n) == InstalledWith(SeqsUpTo(Frames, n))

\* One consumer, no cleanup, access sequences long enough for the cache to
\* fill and an evicted key to return.
SoloInit == InstalledInit(MaxSoloLen)

SoloNext ==
  \/ RunIterate
  \/ RunGetKey
  \/ RunPredict
  \/ RunEvict
  \/ RunInsert
  \/ \E f \in Frames : GetFrameCall("c1", f)
  \/ GetFrameStart("c1")
  \/ GetFrameWait("c1")
  \/ GetFrameRead("c1")

SoloSpec == SoloInit /\ [][SoloNext]_vars

\* ------------------------------------------- the runs with cleanup()
\* One consumer and cleanup() at any moment of an installed sequence.
StopInit == InstalledInit(MaxStopLen)

StopNext ==
  \/ SoloNext
  \/ Cleanup

StopSpec == StopInit /\ [][StopNext]_vars

\* ------------------------------------------- the six-frame scenario
\* frames_per_chunk = 2, max_cache_frames = 2, update_frame_seq of
\* [0, 1, 2, 3, 0, 1]; one consumer asks for the entries in sequence order,
\* one getFrame call per entry.
ScenarioInit ==
  /\ InstalledWith({<<0, 1, 2, 3, 0, 1>>})
  /\ frames_per_chunk = 2
  /\ max_cache_frames = 2

ScenarioCall ==
  /\ ncalls["c1"] < Len(access_seq)
  /\ GetFrameCallUpTo("c1", access_seq[ncalls["c1"] + 1], Len(access_seq))

\* run() up to its choice of branch: the eviction branch, were it chosen,
\* leaves the worker at "lock"
ScenarioNext ==
  \/ ScenarioCall
  \/ GetFrameStart("c1")
  \/ GetFrameWait("c1")
  \/ GetFrameRead("c1")
  \/ RunIterate
  \/ RunGetKey

ScenarioSpec == ScenarioInit /\ [][ScenarioNext]_vars

\* ------------------------------------------- _predict on its own
\* run() at the eviction branch, over every cache content and every
\* remaining sequence within the bounds: _predict is a function of these two
\* alone, so its claims are settled over all of its inputs.
PredictInit ==
  /\ frames_per_chunk \in ChunkSizes
  /\ cache \in SeqsUpTo(0..(frames_per_chunk - 1), MaxPredCache)
  /\ max_cache_frames = Len(cache)
  /\ configured = TRUE
  /\ frame_seq \in SeqsUpTo(Frames, MaxPredLen)
  /\ access_seq = frame_seq
  /\ reader_q = frame_seq
  /\ first_read = FALSE
  /\ stop_event = FALSE
  /\ mutex = "free"
  /\ waiters = <<>>
  /\ wpc = "lock"
  /\ wkey \in 0..(frames_per_chunk - 1)
  /\ evict_slot = 0
  /\ cpc = [c \in Consumers |-> "idle"]
  /\ cframe = [c \in Consumers |-> 0]
  /\ cres = [c \in Consumers |-> "none"]
  /\ cinfo = [c \in Consumers |-> [cfg |-> FALSE, stopped |-> FALSE,
                                   inq |-> FALSE, head |-> FALSE]]
  /\ ncalls = [c \in Consumers |-> 0]
  /\ start_calls = 1
  /\ loads = cache
  /\ victims = <<>>
  /\ load_failed = FALSE
  /\ at_cleanup = {}

PredictNext ==
  \/ RunPredict
  \/ RunEvict
  \/ RunInsert

PredictSpec == PredictInit /\ [][PredictNext]_vars

\* ------------------------------------------- reference: Belady's MIN
\* position (from 1) of the next reference to key k at or after `from`,
\* Len(ks) + 1 when there is none
RECURSIVE NextUse(_, _, _)
NextUse(ks, from, k) ==
  IF from > Len(ks) THEN Len(ks) + 1
  ELSE IF ks[from] = k THEN from
  ELSE NextUse(ks, from + 1, k)

\* the slot (from 1) whose key is referenced farthest in the future or never,
\* the first such slot in slot order
MinVictim(c, ks, from) ==
  CHOOSE i \in 1..Len(c) :
    /\ \A k \in 1..Len(c) : NextUse(ks, from, c[k]) <= NextUse(ks, from, c[i])
    /\ \A k \in 1..(i - 1) : NextUse(ks, from, c[k]) < NextUse(ks, from, c[i])

\* MIN over ks[pos..] with capacity cap >= 1, from cache contents c:
\* the keys loaded and the keys evicted, in order
RECURSIVE MinRun(_, _, _, _, _, _)
MinRun(ks, cap, pos, c, ld, ev) ==
  IF pos > Len(ks) THEN [loads |-> ld, victims |-> ev]
  ELSE IF \E k \in 1..Len(c) : c[k] = ks[pos]
       THEN MinRun(ks, cap, pos + 1, c, ld, ev)
  ELSE IF Len(c) < cap
       THEN MinRun(ks, cap, pos + 1, Append(c, ks[pos]), Append(ld, ks[pos]), ev)
  ELSE LET i == MinVictim(c, ks, pos + 1)
       IN MinRun(ks, cap, pos + 1,
                 Append(SubSeq(c, 1, i - 1) \o SubSeq(c, i + 1, Len(c)), ks[pos]),
                 Append(ld, ks[pos]), Append(ev, c[i]))

Belady(ks, cap) == MinRun(ks, cap, 1, <<>>, <<>>, <<>>)

\* ------------------------------------------------------------- claims
\* the worker thread has ended: nothing is left that calls notify()
WorkerEnded == wpc \in {"stopped", "crashed"}

\* C1: in every reachable state the number of resident chunks is at most
\* max_cache_frames.
C1_Capacity == Len(cache) <= max_cache_frames

\* C1 witness: the cache is full and the worker has evicted and loaded
C1_Witness ==
  /\ max_cache_frames >= 1
  /\ Len(cache) = max_cache_frames
  /\ victims # <<>>
  /\ Len(loads) >= 2

\* C2: a consumer reaches the read and return of getFrame(f) only in a state
\* in which the chunk key of f is in the cache.
C2_ReturnOnlyWhenPresent ==
  \A c \in Consumers :
    cpc[c] = "read" => CacheContains(cache, cframe[c], frames_per_chunk)

\* C2 witness: a consumer holds the lock and is about to read its frame,
\* after the worker has evicted a chunk and loaded another
C2_Witness ==
  \E c \in Consumers :
    /\ cpc[c] = "read"
    /\ victims # <<>>
    /\ Len(loads) >= 2

\* C3: with the access sequence installed, a single consumer asking for the
\* head of the sequence, no load failure and no cleanup, no getFrame call is
\* left blocked: here, in wait() after the worker has run to its end.
C3_NoConsumerBlocksForever ==
  \A c \in Consumers :
    ( /\ ncalls[c] > 0
      /\ cinfo[c].cfg
      /\ cinfo[c].head
      /\ \A d \in Consumers \ {c} : ncalls[d] = 0
      /\ ~load_failed
      /\ ~stop_event )
    => ~(cpc[c] = "waiting" /\ wpc = "stopped")

\* C4: when the worker has processed the whole access sequence (no load
\* failure, no cleanup), the keys it loaded are as many as Belady's MIN
\* loads over the same chunk keys and capacity, and it evicted the same keys
\* in the same order.
C4_AgreesWithBelady ==
  ( /\ wpc = "stopped"
    /\ frame_seq = <<>>
    /\ max_cache_frames >= 1
    /\ ~load_failed
    /\ ~stop_event )
  => LET ref == Belady(KeysOf(access_seq, frames_per_chunk), max_cache_frames)
     IN /\ Len(loads) = Len(ref.loads)
        /\ victims = ref.victims

\* C5: after a ChunkStore load has failed no consumer is left blocked in
\* getFrame (the failing load ends the worker, so a consumer in wait() then
\* stays there).
C5_LoadFailureWakes ==
  \A c \in Consumers :
    (ncalls[c] > 0 /\ cinfo[c].cfg /\ cinfo[c].inq)
    => ~(load_failed /\ cpc[c] = "waiting")

\* C6: a consumer that was blocked in getFrame when cleanup() was called
\* does not stay blocked: here, still in wait() with the worker ended.
C6_CleanupWakes ==
  \A c \in Consumers :
    (cinfo[c].cfg /\ cinfo[c].inq)
    => ~(c \in at_cleanup /\ cpc[c] = "waiting" /\ WorkerEnded)

\* C7: a getFrame call issued after cleanup() never starts the worker, and
\* fails: it neither blocks nor reads a frame.
C7_NoStartAfterCleanup ==
  [][\A c \in Consumers :
       (ncalls[c] > 0 /\ cinfo[c].stopped)
       => /\ (cpc[c] = "start" => wpc' = wpc)
          /\ cpc'[c] \notin {"waiting", "read"}]_vars

\* C8: a getFrame call issued before update_frame_seq fails with
\* NotConfigured: it neither blocks nor reads a frame.
C8_NotConfigured ==
  \A c \in Consumers :
    (ncalls[c] > 0 /\ ~cinfo[c].cfg) => cpc[c] \notin {"waiting", "read"}

\* C9: a getFrame(f) call for a frame f that is nowhere in the remaining
\* access sequence is reported as an error at once: it neither blocks nor
\* reads a frame.
C9_ExhaustedSequence ==
  \A c \in Consumers :
    (ncalls[c] > 0 /\ cinfo[c].cfg /\ ~cinfo[c].inq)
    => cpc[c] \notin {"waiting", "read"}

\* C10: self.start() is called at most once, whatever the interleaving of
\* the consumers' first calls.
C10_StartedOnce == start_calls <= 1

IsSuffixOf(a, b) ==
  /\ Len(a) <= Len(b)
  /\ SubSeq(b, Len(b) - Len(a) + 1, Len(b)) = a

\* C12: in every reachable state the worker's cursor (_frame_seq) is a suffix
\* of, or equal to, the reader queue (_reader_q): the worker is never behind
\* the position the consumers have consumed past.  Stated for runs in which
\* every getFrame call came after update_frame_seq and asked for the frame at
\* the head of the reader queue, and no load failed.
C12_CursorIsSuffix ==
  ((\A c \in Consumers : ncalls[c] > 0 => (cinfo[c].cfg /\ cinfo[c].head))
   /\ ~load_failed)
  => IsSuffixOf(frame_seq, reader_q)

\* C13: cleanup() is idempotent: a call made when the stop signal is already
\* set leaves every part of the state as the first call left it (and, having
\* no precondition, cannot fail).
C13_CleanupIdempotent ==
  [][(stop_event /\ Cleanup) => UNCHANGED vars]_vars

\* C13 witness: cleanup() has been called and the worker has stopped on it
\* with entries unprocessed, the state a second call meets
C13_Witness ==
  /\ stop_event
  /\ wpc = "stopped"
  /\ frame_seq # <<>>
  /\ cpc["c1"] = "idle"

\* the chunk keys of the remaining access sequence, as _predict scans them
RemainingKeys == KeysOf(frame_seq, frames_per_chunk)

\* the cache slots (from 1) whose key has no reference in RemainingKeys
NeverReferencedSlots ==
  {i \in 1..Len(cache) : NextUse(RemainingKeys, 1, cache[i]) > Len(RemainingKeys)}

\* the first slot in scan order among a non-empty set of slots
FirstSlot(S) == CHOOSE i \in S : \A k \in S : i <= k

\* C14: when some resident chunk has no reference in the remaining access
\* sequence, the slot chosen by _predict is such a chunk, the first one in
\* scan order, and never a chunk that is referenced again.
C14_NeverReferencedFirst ==
  (wpc = "evict" /\ NeverReferencedSlots # {})
  => evict_slot + 1 = FirstSlot(NeverReferencedSlots)


\* C15: when every resident chunk is referenced again in the remaining access
\* sequence, the slot chosen by _predict is the one whose next reference is
\* farthest; among slots at an equal farthest distance the one scanned first
\* is kept.
C15_FarthestReference ==
  (wpc = "evict" /\ cache # <<>> /\ NeverReferencedSlots = {})
  => evict_slot + 1 = MinVictim(cache, RemainingKeys, 1)

\* C15 witness: two resident chunks, both referenced again, and the second
\* slot, whose reference is the farther one, has been chosen
C15_Witness ==
  /\ wpc = "evict"
  /\ Len(cache) = 2
  /\ NeverReferencedSlots = {}
  /\ evict_slot = 1


\* no chunk key is resident twice
NoDuplicate(c) == \A i, k \in 1..Len(c) : c[i] = c[k] => i = k

\* C16: the worker never loads a key that is already resident: whenever it
\* is about to load (into spare capacity, or after an eviction) the key is
\* not in the cache, and no key is ever resident twice; so of two
\* consecutive entries with the same chunk key only the first is loaded.
C16_NoLoadOfResidentKey ==
  /\ NoDuplicate(cache)
  /\ wpc \in {"load", "lock", "evict"}
     => ~CacheContains(cache, wkey, frames_per_chunk)

\* C16 witness: the worker is back at the loop head having skipped an entry
\* whose key was resident: it has popped more entries than it has loaded
C16_Witness ==
  /\ wpc = "loop"
  /\ ~load_failed
  /\ loads # <<>>
  /\ Len(access_seq) - Len(frame_seq) > Len(loads)


\* C17: the worker signals the condition after every insertion of a chunk,
\* the load into spare capacity as well as the load after an eviction: an
\* insertion made while a consumer is in wait() wakes one.
C17_SignalAfterEveryInsertion ==
  [][(loads' # loads /\ waiters # <<>>) => waiters' # waiters]_vars


\* C18: once the access sequence is installed, every step that changes the
\* cache or the worker's cursor is taken by the worker while it holds the
\* lock, and every step that changes the reader queue is taken by a consumer
\* while it holds the lock.
C18_MutationsUnderLock ==
  [][configured
     => /\ (cache' # cache \/ frame_seq' # frame_seq) => mutex = "worker"
        /\ reader_q' # reader_q => mutex \in Consumers]_vars


C20_EndsProcessedOrStopped ==
  WorkerEnded => (frame_seq = <<>> \/ stop_event)


\* C21: in the scenario frames_per_chunk = 2, max_cache_frames = 2, access
\* sequence [0, 1, 2, 3, 0, 1], with no load failing: the worker never takes
\* the eviction branch and evicts nothing, it loads chunk key 0 then key 1 and
\* nothing else, and every getFrame call, issued in sequence order, returns
\* successfully: no call fails and none is left in wait() when the worker has
\* stopped.
C21_Scenario ==
  ~load_failed
  => /\ wpc # "lock"
     /\ victims = <<>>
     /\ loads \in {<<>>, <<0>>, <<0, 1>>}
     /\ wpc = "stopped" => loads = <<0, 1>>
     /\ cres["c1"] \in {"none", "ok"}
     /\ ~(wpc = "stopped" /\ cpc["c1"] = "waiting")


\* C22: whenever the worker is in the eviction branch with the predictor's
\* answer in hand, the cache is not empty and the answer is a slot resident
\* at that moment: 0 <= eviction_key < number of resident chunks.
C22_VictimIsResident ==
  wpc = "evict"
  => /\ cache # <<>>
     /\ 0 <= evict_slot
     /\ evict_slot < Len(cache)

====
